---- MODULE Spec2Model ----
(***************************************************************************)
(* The word lattice of theanolm/scoring/lattice.py: the graph store        *)
(* (nodes, links, adjacency lists), the topological sort sorted_nodes, and *)
(* the two writers write_slf and write_kaldi.                              *)
(*                                                                         *)
(* Python object references are modelled by positions: a node is referred  *)
(* to by its id (nodes[id + 1] in the 1-based sequence), a link by its     *)
(* position in links.  An attribute that is None is the empty tuple, a set *)
(* attribute with value v is <<v>>.                                        *)
(***************************************************************************)
EXTENDS Integers, Sequences, FiniteSets

\* ------------------------------------------------------------------ bounds
\* The lattices that are sorted have at most MaxSortSize nodes and links
\* together.
MaxSortSize == 6
\* The lattices whose sort is followed to its end have at most MaxLiveSize
\* nodes and links together.
MaxLiveSize == 4
\* The lattices that are written have at most MaxWriteSize nodes and links
\* together.
MaxWriteSize == 4

\* ------------------------------------------------------------- input sets
None == << >>
Some(v) == <<v>>
IsNone(x) == x = None
Val(x) == x[1]

TimeValues == {1, 2}
Times == {None} \cup {Some(t) : t \in TimeValues}

\* Word labels a producer puts on links; "</s>" is the sentence end token.
Words == {"</s>", "cat"}
\* The log probabilities a scorer attaches: [ac_logprob, lm_logprob].
Unscored == [ac |-> None, lm |-> None]
Scores == {Unscored, [ac |-> Some(-1), lm |-> Some(-2)]}
\* The header values lm_scale and wi_penalty.
Scales == {None, Some(3)}
\* The labels of the Kaldi symbol table.
SentEndLabel == "!SENT_END"
EpsLabel == "<eps>"
\* The mappings a caller passes to write_kaldi: a dict is a function on the
\* set of its keys.
EmptyMapping == [w \in {} |-> 0]
InitialMappings ==
    {EmptyMapping,
     [w \in {SentEndLabel} |-> 2],
     [w \in {SentEndLabel, EpsLabel, "cat"} |->
        IF w = SentEndLabel THEN 0 ELSE IF w = EpsLabel THEN 1 ELSE 2]}

VARIABLES
    nodes,          \* Lattice.nodes
    links,          \* Lattice.links
    initial_node,   \* Lattice.initial_node: None or Some(node id)
    pc,             \* which operation is running, and how the last one ended
    result,         \* sorted_nodes: the local list result (node ids)
    node_queue,     \* sorted_nodes: the local list node_queue (node ids)
    in_degrees,     \* sorted_nodes: the local list in_degrees
    warned,         \* sorted_nodes: logging.warning has been called
    returned,       \* sorted_nodes: None, or Some(the list returned)
    dequeued,       \* sorted_nodes: the last pop, [node, ready, entered] with
                    \* ready the queue and entered the list entered just
                    \* before the pop; None before the first pop
    entered,        \* sorted_nodes: the nodes in the order in which they were
                    \* put into node_queue
    utterance_id,   \* Lattice.utterance_id
    lm_scale,       \* Lattice.lm_scale
    wi_penalty,     \* Lattice.wi_penalty
    word_to_id,     \* the mapping the caller passes to write_kaldi
    output,         \* the lines the running (or last) writer call has written
    emitted,        \* write_kaldi: the links whose lines are in output, in order
    cursor,         \* write_kaldi: how many links the two for loops have passed
    mapping_before, \* word_to_id as it was when the running (or last) writer
                    \* call began
    previous,       \* None, or Some(the record Ended) of the writer call before
    word_args       \* for each link, the word argument its constructor got

vars == <<nodes, links, initial_node, pc, result, node_queue, in_degrees,
          warned, returned, dequeued, entered, utterance_id, lm_scale,
          wi_penalty,
          word_to_id, output, emitted, cursor, mapping_before, previous,
          word_args>>

sortVars == <<result, node_queue, in_degrees, warned, returned, dequeued,
              entered>>
metaVars == <<utterance_id, lm_scale, wi_penalty>>
writeVars == <<word_to_id, output, emitted, cursor, mapping_before, previous>>

\* ------------------------------------------------------------ graph store
\* Lattice.Node.__init__
Node(node_id) ==
    [id |-> node_id, out_links |-> << >>, in_links |-> << >>, time |-> None,
     best_logprob |-> None, final |-> FALSE]

\* Lattice.Link.__init__: the word argument is not stored.
Link(start_node, end_node, word, ac_logprob, lm_logprob, transitions) ==
    [start_node |-> start_node, end_node |-> end_node, word |-> None,
     ac_logprob |-> ac_logprob, lm_logprob |-> lm_logprob,
     transitions |-> transitions]

NodeIds == {nodes[i].id : i \in 1..Len(nodes)}
NodeOf(node_id) == nodes[node_id + 1]

\* Lattice.__init__, and the locals of the operations before any call.
InitLattice ==
    /\ nodes = << >>
    /\ links = << >>
    /\ initial_node = None
    /\ pc = "idle"
    /\ result = << >>
    /\ node_queue = << >>
    /\ in_degrees = << >>
    /\ warned = FALSE
    /\ returned = None
    /\ dequeued = None
    /\ entered = << >>
    /\ utterance_id = None
    /\ lm_scale = None
    /\ wi_penalty = None
    /\ output = << >>
    /\ emitted = << >>
    /\ cursor = 0
    /\ mapping_before = EmptyMapping
    /\ previous = None
    /\ word_args = << >>

Init == InitLattice /\ word_to_id = EmptyMapping

\* A producer appends Node(len(nodes)) and sets its time attribute.
AddNode ==
    /\ pc = "idle"
    /\ Len(nodes) + Len(links) < MaxSortSize
    /\ \E t \in Times :
         nodes' = Append(nodes, [Node(Len(nodes)) EXCEPT !.time = t])
    /\ UNCHANGED <<links, initial_node, pc, word_args>>
    /\ UNCHANGED <<sortVars, metaVars, writeVars>>

\* The appends with the two adjacency lists exchanged: the link goes to the
\* in_links of its start node and to the out_links of its end node.
AppendLinkSwapped(link) ==
    LET lid == Len(links) + 1
        n1 == [nodes EXCEPT ![link.start_node + 1].in_links = Append(@, lid)]
    IN [links |-> Append(links, link),
        nodes |-> [n1 EXCEPT ![link.end_node + 1].out_links = Append(@, lid)],
        link |-> lid]

\* The three appends of Lattice._add_link for a constructed link: the lists
\* they leave, and the position of the link (the reference that is returned).
AppendLink(link) ==
    LET lid == Len(links) + 1
        n1 == [nodes EXCEPT ![link.start_node + 1].out_links = Append(@, lid)]
    IN [links |-> Append(links, link),
        nodes |-> [n1 EXCEPT ![link.end_node + 1].in_links = Append(@, lid)],
        link |-> lid]

\* Lattice._add_link
_add_link(start_node, end_node) ==
    AppendLink(Link(start_node, end_node, None, None, None, ""))

\* A producer's calls of _add_link for the lattices that are sorted: the
\* links of a node with a smaller id are added first.  sorted_nodes reads the
\* order of each node's out_links and the length of each node's in_links,
\* and every combination of these is built this way.
AddLinkByStart ==
    /\ pc = "idle"
    /\ initial_node # None
    /\ Len(nodes) + Len(links) < MaxSortSize
    /\ \E s \in NodeIds, e \in NodeIds :
         /\ links # << >> => links[Len(links)].start_node <= s
         /\ links' = _add_link(s, e).links
         /\ nodes' = _add_link(s, e).nodes
         /\ word_args' = Append(word_args, None)
    /\ UNCHANGED <<initial_node, pc>>
    /\ UNCHANGED <<sortVars, metaVars, writeVars>>

\* A call of _add_link between any two nodes of the lattice, in any order.
AddLink ==
    /\ pc = "idle"
    /\ Len(nodes) + Len(links) < MaxSortSize
    /\ \E s \in NodeIds, e \in NodeIds :
         /\ links' = _add_link(s, e).links
         /\ nodes' = _add_link(s, e).nodes
         /\ word_args' = Append(word_args, None)
    /\ UNCHANGED <<initial_node, pc>>
    /\ UNCHANGED <<sortVars, metaVars, writeVars>>

\* Node additions and calls of _add_link, freely interleaved.
NextStore ==
    \/ AddNode
    \/ AddLink

SpecStore == Init /\ [][NextStore]_vars

\* The producer's assignment to Lattice.initial_node, made before the links
\* are added.
SetInitialNode ==
    /\ pc = "idle"
    /\ links = << >>
    /\ \E n \in NodeIds :
         /\ initial_node # Some(n)
         /\ initial_node' = Some(n)
    /\ UNCHANGED <<nodes, links, pc, word_args>>
    /\ UNCHANGED <<sortVars, metaVars, writeVars>>

\* ----------------------------------------------------------- sorted_nodes
\* key=lambda x: (x.time is None, x.time), compared as Python compares tuples:
\* False < True on the first component; (True, None) equals (True, None).
KeyLess(a, b) ==
    LET ta == NodeOf(a).time
        tb == NodeOf(b).time
    IN IF IsNone(ta) # IsNone(tb) THEN IsNone(tb)
       ELSE IF IsNone(ta) THEN FALSE
       ELSE Val(ta) < Val(tb)

\* Insert x into the descending list s behind every element that is not
\* smaller than x: elements with equal keys keep their order.
RECURSIVE InsertDesc(_, _)
InsertDesc(s, x) ==
    IF s = << >> THEN <<x>>
    ELSE IF KeyLess(Head(s), x) THEN <<x>> \o s
    ELSE <<Head(s)>> \o InsertDesc(Tail(s), x)

\* The sort without reverse=True: stable, ascending.
RECURSIVE InsertAsc(_, _)
InsertAsc(s, x) ==
    IF s = << >> THEN <<x>>
    ELSE IF KeyLess(x, Head(s)) THEN <<x>> \o s
    ELSE <<Head(s)>> \o InsertAsc(Tail(s), x)

RECURSIVE SortNoReverse(_)
SortNoReverse(s) ==
    IF s = << >> THEN << >>
    ELSE InsertAsc(SortNoReverse(SubSeq(s, 1, Len(s) - 1)), s[Len(s)])

\* list.sort(key=..., reverse=True): stable, descending.
RECURSIVE SortDesc(_)
SortDesc(s) ==
    IF s = << >> THEN << >>
    ELSE InsertDesc(SortDesc(SubSeq(s, 1, Len(s) - 1)), s[Len(s)])

\* The for loop of a plain breadth-first search: a node is queued when it is
\* first met, not when its last incoming link has been traversed.
RECURSIVE TraverseLinksFirstVisit(_, _, _, _)
TraverseLinksFirstVisit(out_links, i, queue, deg) ==
    IF i > Len(out_links) THEN [queue |-> queue, deg |-> deg, raised |-> FALSE]
    ELSE LET next_node == links[out_links[i]].end_node
             d == [deg EXCEPT ![next_node + 1] = @ - 1]
             seen == {queue[k] : k \in 1..Len(queue)}
                         \cup {result[k] : k \in 1..Len(result)}
         IN IF next_node \notin seen
            THEN TraverseLinksFirstVisit(out_links, i + 1,
                                         SortDesc(Append(queue, next_node)), d)
            ELSE TraverseLinksFirstVisit(out_links, i + 1, queue, d)

\* The for loop without the elif branch: a negative in-degree is passed over
\* and nothing is raised.
RECURSIVE TraverseLinksNoRaise(_, _, _, _)
TraverseLinksNoRaise(out_links, i, queue, deg) ==
    IF i > Len(out_links) THEN [queue |-> queue, deg |-> deg, raised |-> FALSE]
    ELSE LET next_node == links[out_links[i]].end_node
             d == [deg EXCEPT ![next_node + 1] = @ - 1]
         IN IF d[next_node + 1] = 0
            THEN TraverseLinksNoRaise(out_links, i + 1,
                                      SortDesc(Append(queue, next_node)), d)
            ELSE TraverseLinksNoRaise(out_links, i + 1, queue, d)

\* The for loop over node.out_links from its i-th link on: the queue and the
\* in-degrees it leaves, and whether it raised InputError.
RECURSIVE TraverseLinks(_, _, _, _)
TraverseLinks(out_links, i, queue, deg) ==
    IF i > Len(out_links) THEN [queue |-> queue, deg |-> deg, raised |-> FALSE]
    ELSE LET next_node == links[out_links[i]].end_node
             d == [deg EXCEPT ![next_node + 1] = @ - 1]
         IN IF d[next_node + 1] = 0
            THEN TraverseLinks(out_links, i + 1,
                               SortDesc(Append(queue, next_node)), d)
            ELSE IF d[next_node + 1] < 0
            THEN [queue |-> queue, deg |-> d, raised |-> TRUE]
            ELSE TraverseLinks(out_links, i + 1, queue, d)

\* The nodes that the for loop over node.out_links appends to node_queue,
\* from the i-th link on, in the order of the appends (line 195).
RECURSIVE Appended(_, _, _)
Appended(out_links, i, deg) ==
    IF i > Len(out_links) THEN << >>
    ELSE LET next_node == links[out_links[i]].end_node
             d == [deg EXCEPT ![next_node + 1] = @ - 1]
         IN IF d[next_node + 1] = 0
            THEN <<next_node>> \o Appended(out_links, i + 1, d)
            ELSE IF d[next_node + 1] < 0 THEN << >>
            ELSE Appended(out_links, i + 1, d)

\* Lines 183-187: the locals before the loop.
SortBegin ==
    /\ pc = "idle"
    /\ initial_node # None
    /\ pc' = "sorting"
    /\ result' = << >>
    /\ node_queue' = <<Val(initial_node)>>
    /\ in_degrees' = [i \in 1..Len(nodes) |-> Len(nodes[i].in_links)]
    /\ warned' = FALSE
    /\ returned' = None
    /\ dequeued' = None
    /\ entered' = <<Val(initial_node)>>
    /\ UNCHANGED <<nodes, links, initial_node, word_args>>
    /\ UNCHANGED <<metaVars, writeVars>>

\* Lines 188-199: one iteration of the while loop.
SortStep ==
    /\ pc = "sorting"
    /\ node_queue # << >>
    /\ LET node == node_queue[Len(node_queue)]
           rest == SubSeq(node_queue, 1, Len(node_queue) - 1)
           t == TraverseLinks(NodeOf(node).out_links, 1, rest, in_degrees)
       IN /\ dequeued' = Some([node |-> node, ready |-> node_queue,
                               entered |-> entered])
          /\ entered' = entered
                        \o Appended(NodeOf(node).out_links, 1, in_degrees)
          /\ result' = Append(result, node)
          /\ node_queue' = t.queue
          /\ in_degrees' = t.deg
          /\ pc' = IF t.raised THEN "raised" ELSE "sorting"
    /\ UNCHANGED <<nodes, links, initial_node, warned, returned, word_args>>
    /\ UNCHANGED <<metaVars, writeVars>>

\* The check after the loop with the comparison off by one.
SortEndOffByOne ==
    /\ pc = "sorting"
    /\ node_queue = << >>
    /\ IF Len(result) + 1 < Len(nodes)
       THEN /\ warned' = TRUE
            /\ pc' = "returned"
            /\ returned' = Some(result)
       ELSE /\ pc' = "returned"
            /\ returned' = Some(result)
            /\ UNCHANGED warned
    /\ UNCHANGED <<nodes, links, initial_node, result, node_queue, in_degrees,
                   dequeued, entered, word_args>>
    /\ UNCHANGED <<metaVars, writeVars>>

\* Lines 201-206: the check after the loop and the return.
SortEnd ==
    /\ pc = "sorting"
    /\ node_queue = << >>
    /\ IF Len(result) < Len(nodes)
       THEN /\ warned' = TRUE
            /\ pc' = "returned"
            /\ returned' = Some(result)
       ELSE IF Len(result) = Len(nodes)
       THEN /\ pc' = "returned"
            /\ returned' = Some(result)
            /\ UNCHANGED warned
       ELSE /\ pc' = "assertion_failed"
            /\ UNCHANGED <<warned, returned>>
    /\ UNCHANGED <<nodes, links, initial_node, result, node_queue, in_degrees,
                   dequeued, entered, word_args>>
    /\ UNCHANGED <<metaVars, writeVars>>

NextSort ==
    \/ AddNode
    \/ AddLinkByStart
    \/ SetInitialNode
    \/ SortBegin
    \/ SortStep
    \/ SortEnd

SpecSort == Init /\ [][NextSort]_vars

\* A call of sorted_nodes that has begun keeps running: the interpreter
\* executes the next iteration of the while loop, and the statements after
\* the loop, without waiting for anything.
AddLiveNode ==
    /\ pc = "idle"
    /\ Len(nodes) + Len(links) < MaxLiveSize
    /\ \E t \in Times :
         nodes' = Append(nodes, [Node(Len(nodes)) EXCEPT !.time = t])
    /\ UNCHANGED <<links, initial_node, pc, word_args>>
    /\ UNCHANGED <<sortVars, metaVars, writeVars>>

AddLiveLink ==
    /\ pc = "idle"
    /\ initial_node # None
    /\ Len(nodes) + Len(links) < MaxLiveSize
    /\ \E s \in NodeIds, e \in NodeIds :
         /\ links' = _add_link(s, e).links
         /\ nodes' = _add_link(s, e).nodes
         /\ word_args' = Append(word_args, None)
    /\ UNCHANGED <<initial_node, pc>>
    /\ UNCHANGED <<sortVars, metaVars, writeVars>>

NextSortLive ==
    \/ AddLiveNode
    \/ AddLiveLink
    \/ SetInitialNode
    \/ SortBegin
    \/ SortStep
    \/ SortEnd

SpecSortLive ==
    Init /\ [][NextSortLive]_vars /\ WF_vars(SortStep) /\ WF_vars(SortEnd)

\* ---------------------------------------------------------------- writers
\* "{}".format(x) of an attribute that holds a string or None.
Str(x) == IF x = None THEN "None" ELSE Val(x)
\* x + 0.0: the float with the value of x, printed with a decimal point.
ToFloat(x) == [float |-> x]
\* -x + 0.0
NegFloat(x) == [float |-> 0 - x]

\* Whether a writer may be called: no operation is running.
Callable == pc \in {"idle", "slf_done", "kaldi_done", "kaldi_raised"}

\* The call that ended before the one that begins now.
Ended ==
    IF pc = "idle" THEN None
    ELSE Some([kind |-> IF pc = "slf_done" THEN "slf" ELSE "kaldi",
               out |-> output, pc |-> pc, mapping_before |-> mapping_before])

\* A producer of the lattices that are written appends a node and sets final.
AddWriteNode ==
    /\ pc = "idle"
    /\ Len(nodes) + Len(links) < MaxWriteSize
    /\ \E f \in BOOLEAN :
         nodes' = Append(nodes, [Node(Len(nodes)) EXCEPT !.final = f])
    /\ UNCHANGED <<links, initial_node, pc, word_args>>
    /\ UNCHANGED <<sortVars, metaVars, writeVars>>

\* The producer calls _add_link and assigns the word and the log
\* probabilities of the link it returns.
AddWriteLink ==
    /\ pc = "idle"
    /\ Len(nodes) + Len(links) < MaxWriteSize
    /\ \E s \in NodeIds, e \in NodeIds, sc \in Scores,
          w \in {None} \cup {Some(x) : x \in Words} :
         LET r == _add_link(s, e)
         IN /\ links' = [r.links EXCEPT ![r.link].word = w,
                                        ![r.link].ac_logprob = sc.ac,
                                        ![r.link].lm_logprob = sc.lm]
            /\ nodes' = r.nodes
            /\ word_args' = Append(word_args, None)
    /\ UNCHANGED <<initial_node, pc>>
    /\ UNCHANGED <<sortVars, metaVars, writeVars>>

\* The producer's assignments to utterance_id, lm_scale and wi_penalty.
SetHeader ==
    /\ pc = "idle"
    /\ utterance_id = None
    /\ utterance_id' = Some("utt1")
    /\ lm_scale' \in Scales
    /\ wi_penalty' \in Scales
    /\ UNCHANGED <<nodes, links, initial_node, pc, word_args>>
    /\ UNCHANGED <<sortVars, writeVars>>

\* A producer appends a node and sets its time.
AddTimedNode ==
    /\ pc = "idle"
    /\ Len(nodes) + Len(links) < MaxWriteSize
    /\ \E t \in Times :
         nodes' = Append(nodes, [Node(Len(nodes)) EXCEPT !.time = t])
    /\ UNCHANGED <<links, initial_node, pc, word_args>>
    /\ UNCHANGED <<sortVars, metaVars, writeVars>>

\* A producer constructs a link with a word label and log probabilities,
\* Link(start, end, word, ac_logprob, lm_logprob), and appends it as
\* _add_link appends the link it constructs.
ConstructLink ==
    /\ pc = "idle"
    /\ Len(nodes) + Len(links) < MaxWriteSize
    /\ \E s \in NodeIds, e \in NodeIds, sc \in Scores,
          w \in {None} \cup {Some(x) : x \in Words} :
         LET r == AppendLink(Link(s, e, w, sc.ac, sc.lm, ""))
         IN /\ links' = r.links
            /\ nodes' = r.nodes
            /\ word_args' = Append(word_args, w)
    /\ UNCHANGED <<initial_node, pc>>
    /\ UNCHANGED <<sortVars, metaVars, writeVars>>

\* ---------------------------------------------------------------- write_slf
SlfNodeLine(node) ==
    <<<<"I", node.id>>>>
        \o (IF node.time # None THEN <<<<"t", Val(node.time)>>>> ELSE << >>)

SlfLinkLine(link_id, link) ==
    <<<<"J", link_id>>, <<"S", NodeOf(link.start_node).id>>,
      <<"E", NodeOf(link.end_node).id>>>>
        \o (IF link.word = None THEN <<<<"W", "!NULL">>>>
            ELSE <<<<"W", Val(link.word)>>>>)
        \o (IF link.ac_logprob # None
            THEN <<<<"a", ToFloat(Val(link.ac_logprob))>>>> ELSE << >>)
        \o (IF link.lm_logprob # None
            THEN <<<<"l", ToFloat(Val(link.lm_logprob))>>>> ELSE << >>)

\* The header line written without the test "if fields:".
SlfHeaderLinesAlways ==
    <<(IF lm_scale # None THEN <<<<"lmscale", Val(lm_scale)>>>> ELSE << >>)
         \o (IF wi_penalty # None THEN <<<<"wdpenalty", Val(wi_penalty)>>>>
             ELSE << >>)>>

\* Lines 102-108: the header line, written when fields is not empty.
SlfHeaderLines ==
    LET fields ==
            (IF lm_scale # None THEN <<<<"lmscale", Val(lm_scale)>>>> ELSE << >>)
         \o (IF wi_penalty # None THEN <<<<"wdpenalty", Val(wi_penalty)>>>>
             ELSE << >>)
    IN IF fields # << >> THEN <<fields>> ELSE << >>

\* Lines 100-130: everything write_slf writes, line by line.
SlfLines ==
    <<<<<<"VERSION", "1.1">>>>, <<<<"UTTERANCE", Str(utterance_id)>>>>>>
        \o SlfHeaderLines
        \o <<<<<<"N", Len(nodes)>>, <<"L", Len(links)>>>>>>
        \o [i \in 1..Len(nodes) |-> SlfNodeLine(nodes[i])]
        \o [i \in 1..Len(links) |-> SlfLinkLine(i - 1, links[i])]

\* Lattice.write_slf
WriteSlf ==
    /\ Callable
    /\ pc' = "slf_done"
    /\ previous' = Ended
    /\ mapping_before' = word_to_id
    /\ output' = SlfLines
    /\ emitted' = << >>
    /\ cursor' = 0
    /\ UNCHANGED <<nodes, links, initial_node, word_args, word_to_id>>
    /\ UNCHANGED <<sortVars, metaVars>>

\* -------------------------------------------------------------- write_kaldi
Range(m) == {m[w] : w \in DOMAIN m}

\* m[w] = k
SetItem(m, w, k) == [x \in DOMAIN m \cup {w} |-> IF x = w THEN k ELSE m[x]]

\* The IDs the mapping may give a label it does not hold yet.
FreshIds(m) == {k \in 0..(Cardinality(DOMAIN m) + 1) : k \notin Range(m)}

\* word_to_id[word]: the ID of the label, inserted when the mapping does not
\* hold the label.  The outcomes [map, id].
Lookup(m, w) ==
    IF w \in DOMAIN m THEN {[map |-> m, id |-> m[w]]}
    ELSE {[map |-> SetItem(m, w, k), id |-> k] : k \in FreshIds(m)}

\* The statement word_to_id['!SENT_END'] = 0 runs when write_kaldi begins,
\* before the first line is written, and not when it ends.
MappingAtLate(stage, m) ==
    IF stage = "end" THEN SetItem(m, SentEndLabel, 0) ELSE m

MappingAt(stage, m) ==
    IF stage = "begin" THEN SetItem(m, SentEndLabel, 0) ELSE m

\* The links in the order of "for link in self.links".
KaldiLinkOrderByLinks == [i \in 1..Len(links) |-> i]

RECURSIVE OutLinksFrom(_)
OutLinksFrom(i) ==
    IF i > Len(nodes) THEN << >>
    ELSE nodes[i].out_links \o OutLinksFrom(i + 1)

\* The links in the order of the two for loops of lines 166-167.
KaldiLinkOrder == OutLinksFrom(1)

\* Lines 143-147: the label write_normal_link looks up.
NormalLinkLabel(link) ==
    IF link.word = None THEN EpsLabel
    ELSE IF Val(link.word) = "</s>" THEN SentEndLabel
    ELSE Val(link.word)

\* Unary minus on None raises TypeError.
NegationRaises(link) == link.lm_logprob = None \/ link.ac_logprob = None

\* Lines 148-154: "start end id lm,ac,transitions"
NormalLine(link, id) ==
    <<NodeOf(link.start_node).id, NodeOf(link.end_node).id, id,
      <<NegFloat(Val(link.lm_logprob)), NegFloat(Val(link.ac_logprob)),
        link.transitions>>>>

\* Lines 157-161: "start lm,ac,transitions"
FinalLine(link) ==
    <<NodeOf(link.start_node).id,
      <<NegFloat(Val(link.lm_logprob)), NegFloat(Val(link.ac_logprob)),
        link.transitions>>>>

\* Line 168
IsFinalLink(link) == NodeOf(link.end_node).final

\* Lines 163-165
KaldiBegin ==
    /\ Callable
    /\ pc' = "kaldi"
    /\ previous' = Ended
    /\ mapping_before' = word_to_id
    /\ word_to_id' = MappingAt("begin", word_to_id)
    /\ output' = <<<<Str(utterance_id)>>>>
    /\ emitted' = << >>
    /\ cursor' = 0
    /\ UNCHANGED <<nodes, links, initial_node, word_args>>
    /\ UNCHANGED <<sortVars, metaVars>>

\* Lines 166-171: one iteration of the inner for loop.
KaldiLink ==
    /\ pc = "kaldi"
    /\ cursor < Len(KaldiLinkOrder)
    /\ LET lid == KaldiLinkOrder[cursor + 1]
           link == links[lid]
       IN IF IsFinalLink(link)
          THEN /\ word_to_id' = word_to_id
               /\ IF NegationRaises(link)
                  THEN /\ pc' = "kaldi_raised"
                       /\ UNCHANGED <<output, emitted, cursor>>
                  ELSE /\ output' = Append(output, FinalLine(link))
                       /\ emitted' = Append(emitted, lid)
                       /\ cursor' = cursor + 1
                       /\ pc' = pc
          ELSE \E r \in Lookup(word_to_id, NormalLinkLabel(link)) :
               /\ word_to_id' = r.map
               /\ IF NegationRaises(link)
                  THEN /\ pc' = "kaldi_raised"
                       /\ UNCHANGED <<output, emitted, cursor>>
                  ELSE /\ output' = Append(output, NormalLine(link, r.id))
                       /\ emitted' = Append(emitted, lid)
                       /\ cursor' = cursor + 1
                       /\ pc' = pc
    /\ UNCHANGED <<nodes, links, initial_node, word_args, previous,
                   mapping_before>>
    /\ UNCHANGED <<sortVars, metaVars>>

\* Line 172
KaldiEnd ==
    /\ pc = "kaldi"
    /\ cursor = Len(KaldiLinkOrder)
    /\ pc' = "kaldi_done"
    /\ output' = Append(output, << >>)
    /\ word_to_id' = MappingAt("end", word_to_id)
    /\ UNCHANGED <<nodes, links, initial_node, word_args, previous, emitted,
                   cursor, mapping_before>>
    /\ UNCHANGED <<sortVars, metaVars>>

InitWrite == InitLattice /\ word_to_id \in InitialMappings

NextWrite ==
    \/ AddWriteNode
    \/ AddWriteLink
    \/ WriteSlf
    \/ KaldiBegin
    \/ KaldiLink
    \/ KaldiEnd

SpecWrite == InitWrite /\ [][NextWrite]_vars

NextSlf ==
    \/ SetHeader
    \/ AddTimedNode
    \/ ConstructLink
    \/ WriteSlf

SpecSlf == Init /\ [][NextSlf]_vars

\* ------------------------------------------------- properties: sorted_nodes
\* The end nodes of the outgoing links of node n.
Successors(n) == {links[NodeOf(n).out_links[i]].end_node :
                    i \in 1..Len(NodeOf(n).out_links)}

\* The nodes reachable from the set S by following out_links (S included).
RECURSIVE Closure(_)
Closure(S) ==
    LET T == S \cup UNION {Successors(n) : n \in S}
    IN IF T = S THEN S ELSE Closure(T)

Reachable == IF initial_node = None THEN {} ELSE Closure({Val(initial_node)})

\* Some node reachable from initial_node lies on a cycle.
ReachableCyclic == \E n \in Reachable : n \in Closure(Successors(n))

Elements(s) == {s[i] : i \in 1..Len(s)}
NoDuplicates(s) == \A i, j \in 1..Len(s) : s[i] = s[j] => i = j

\* C1: for an acyclic reachable subgraph the returned list holds exactly the
\* nodes reachable from initial_node, each exactly once, whatever unreachable
\* nodes and links out of them the lattice holds besides.
C1_ExactlyReachable ==
    (pc = "returned" /\ ~ReachableCyclic) =>
        /\ Elements(Val(returned)) = Reachable
        /\ NoDuplicates(Val(returned))

\* C2: for an acyclic reachable subgraph, every link with both end points in
\* the returned list has its start node at an earlier position than its end
\* node.
C2_StartBeforeEnd ==
    (pc = "returned" /\ ~ReachableCyclic) =>
        \A l \in 1..Len(links) :
            \A i, j \in 1..Len(Val(returned)) :
                (Val(returned)[i] = links[l].start_node
                 /\ Val(returned)[j] = links[l].end_node) => i < j

C2_Witness ==
    /\ pc = "returned"
    /\ ~ReachableCyclic
    /\ Len(Val(returned)) = 3
    /\ \E l \in 1..Len(links) :
         /\ links[l].start_node # Val(initial_node)
         /\ {links[l].start_node, links[l].end_node} \subseteq
                Elements(Val(returned))

\* C3: a cycle among the nodes reachable from initial_node makes sorted_nodes
\* raise the cycle error; it never returns a list for such a lattice.
C3_CycleRaises == ReachableCyclic => pc # "returned"

\* C4: an unreachable node is never in the returned list, the cycle error is
\* raised only for a lattice whose reachable subgraph has a cycle (never for
\* the unreachable nodes alone), and a return from a lattice that has an
\* unreachable node is preceded by the warning.
C4_UnreachableNodes ==
    /\ pc = "returned" => Elements(Val(returned)) \subseteq Reachable
    /\ pc = "raised" => ReachableCyclic
    /\ (pc = "returned" /\ NodeIds \ Reachable # {}) => warned

C4_Witness ==
    /\ pc = "returned"
    /\ warned
    /\ Len(Val(returned)) >= 2
    /\ \E u \in NodeIds \ Reachable : NodeOf(u).out_links # << >>

\* C5: the node a dequeue step removes has the smallest time of the ready set,
\* and a node without a time is removed only when no node of the ready set
\* has a time.
C5_DequeueSmallestTime ==
    dequeued # None =>
        LET d == Val(dequeued)
            t == NodeOf(d.node).time
        IN \A i \in 1..Len(d.ready) :
             LET u == NodeOf(d.ready[i]).time
             IN IF t = None THEN u = None
                ELSE u = None \/ Val(t) <= Val(u)

C5_Witness ==
    /\ dequeued # None
    /\ LET d == Val(dequeued)
       IN /\ Len(d.ready) >= 2
          /\ \E i \in 1..Len(d.ready) :
               NodeOf(d.ready[i]).time # NodeOf(d.node).time

\* ------------------------------------------------------ properties: writers
\* A call of write_kaldi is running or was the last call.
InKaldi == pc \in {"kaldi", "kaldi_done", "kaldi_raised"}

\* The line of output that was written for the k-th emitted link.
LinkLine(k) == output[k + 1]

\* C6: from the moment write_kaldi may write a link line, and still after it
\* has returned, the mapping gives '!SENT_END' the ID 0, whatever it held
\* before the call; every line written for a non-final link with the word
\* '</s>' carries the ID 0.
C6_SentEndIsZero ==
    InKaldi =>
        /\ SentEndLabel \in DOMAIN word_to_id
        /\ word_to_id[SentEndLabel] = 0
        /\ \A k \in 1..Len(emitted) :
             LET link == links[emitted[k]]
             IN (link.word = Some("</s>") /\ ~NodeOf(link.end_node).final)
                    => (Len(LinkLine(k)) = 4 /\ LinkLine(k)[3] = 0)

C6_Witness ==
    /\ pc = "kaldi_done"
    /\ SentEndLabel \in DOMAIN mapping_before
    /\ mapping_before[SentEndLabel] = 2
    /\ \E k \in 1..Len(emitted) :
         /\ links[emitted[k]].word = Some("</s>")
         /\ ~NodeOf(links[emitted[k]].end_node).final

\* The position of link l in the out_links of its start node.
RECURSIVE PositionIn(_, _, _)
PositionIn(s, x, i) ==
    IF i > Len(s) THEN 0 ELSE IF s[i] = x THEN i ELSE PositionIn(s, x, i + 1)

OutPosition(l) == PositionIn(NodeOf(links[l].start_node).out_links, l, 1)

\* Link a is written before link b: its start node is stored earlier, or
\* they start at the same node and a is earlier in its out_links.
WrittenBefore(a, b) ==
    \/ links[a].start_node < links[b].start_node
    \/ /\ links[a].start_node = links[b].start_node
       /\ OutPosition(a) < OutPosition(b)

\* The complete output of write_kaldi: the utterance id, one line per link in
\* the order of WrittenBefore, a blank line; a line has the final form (two
\* fields) exactly when the end node of its link is final.
KaldiComplete ==
    /\ pc = "kaldi_done"
    /\ Len(output) = Len(links) + 2
    /\ output[1] = <<Str(utterance_id)>>
    /\ output[Len(output)] = << >>
    /\ Len(emitted) = Len(links)
    /\ \A l \in 1..Len(links) : \E k \in 1..Len(emitted) : emitted[k] = l
    /\ \A j, k \in 1..Len(emitted) :
         j < k => WrittenBefore(emitted[j], emitted[k])
    /\ \A k \in 1..Len(emitted) :
         LET link == links[emitted[k]]
         IN /\ Len(LinkLine(k)) = IF NodeOf(link.end_node).final THEN 2 ELSE 4
            /\ LinkLine(k)[1] = link.start_node
            /\ Len(LinkLine(k)) = 4 => LinkLine(k)[2] = link.end_node

KaldiEnded == pc \in {"kaldi_done", "kaldi_raised"}

AllScored ==
    \A l \in 1..Len(links) :
        links[l].ac_logprob # None /\ links[l].lm_logprob # None

\* C7 as claimed: for every lattice built by adding nodes and links, a call of
\* write_kaldi ends with the complete output.
C7_OneLinePerLink == KaldiEnded => KaldiComplete

\* C7 as amended: for every lattice built by adding nodes and links in which
\* every link has ac_logprob and lm_logprob set, a call of write_kaldi ends
\* with the complete output: the utterance id, exactly one line per link in
\* the order of the start nodes and of their out_links, a blank line, a line
\* in the final form exactly when the end node of its link is final.
C7_OneLinePerScoredLink == (KaldiEnded /\ AllScored) => KaldiComplete

C7_Witness ==
    /\ KaldiComplete
    /\ AllScored
    /\ \E a, b \in 1..Len(links) :
         /\ a < b
         /\ links[b].start_node < links[a].start_node
         /\ NodeOf(links[a].end_node).final
         /\ ~NodeOf(links[b].end_node).final

\* The name of the first field of the k-th line of output.
FirstField(k) == output[k][1][1]

\* C8: write_slf writes VERSION, UTTERANCE, a header line exactly when lm_scale
\* or wi_penalty is set, the N=/L= line, one line per node in the order of
\* nodes, one line per link in the order of links with J the index of the
\* link; N is the number of node lines and L the number of link lines.
C8_SlfRecordOrder ==
    pc = "slf_done" =>
        LET h == IF lm_scale # None \/ wi_penalty # None THEN 1 ELSE 0
            n == Len(nodes)
        IN /\ Len(output) = 3 + h + n + Len(links)
           /\ \A k \in 1..Len(output) : output[k] # << >>
           /\ FirstField(1) = "VERSION"
           /\ FirstField(2) = "UTTERANCE"
           /\ h = 1 => FirstField(3) \in {"lmscale", "wdpenalty"}
           /\ FirstField(3 + h) = "N"
           /\ output[3 + h][2][1] = "L"
           /\ \A i \in 1..n : output[3 + h + i][1] = <<"I", nodes[i].id>>
           /\ \A j \in 1..Len(links) :
                /\ output[3 + h + n + j][1] = <<"J", j - 1>>
                /\ output[3 + h + n + j][2] = <<"S", links[j].start_node>>
                /\ output[3 + h + n + j][3] = <<"E", links[j].end_node>>
           /\ output[3 + h][1][2]
                = Cardinality({k \in 1..Len(output) : FirstField(k) = "I"})
           /\ output[3 + h][2][2]
                = Cardinality({k \in 1..Len(output) : FirstField(k) = "J"})

C8_Witness ==
    /\ pc = "slf_done"
    /\ lm_scale = None
    /\ wi_penalty # None
    /\ Len(nodes) = 2
    /\ Len(links) = 2
    /\ links[1].start_node = 1

\* The writer of the last call.
LastKind == IF pc = "slf_done" THEN "slf" ELSE "kaldi"

WriterEnded == pc \in {"slf_done", "kaldi_done", "kaldi_raised"}

\* C9: a writer called twice in a row on the same lattice (write_kaldi with
\* the same mapping object) ends the same way and writes the same output
\* both times.
C9_SameOutputTwice ==
    (WriterEnded /\ previous # None /\ Val(previous).kind = LastKind) =>
        /\ Val(previous).pc = pc
        /\ Val(previous).out = output

C9_Witness ==
    /\ pc = "kaldi_done"
    /\ previous # None
    /\ Val(previous).kind = "kaldi"
    /\ SentEndLabel \in DOMAIN Val(previous).mapping_before
    /\ Val(previous).mapping_before[SentEndLabel] = 2
    /\ DOMAIN Val(previous).mapping_before # DOMAIN mapping_before
    /\ \E k \in 1..Len(emitted) : Len(LinkLine(k)) = 4 /\ LinkLine(k)[3] = 0
    /\ \E k \in 1..Len(emitted) : Len(LinkLine(k)) = 4 /\ LinkLine(k)[3] # 0

\* The value of the W field of the line write_slf wrote for link l.
SlfWord(l) ==
    LET h == IF lm_scale # None \/ wi_penalty # None THEN 1 ELSE 0
    IN output[3 + h + Len(nodes) + l][4][2]

\* C10: a link constructed with the word label w is written by write_slf with
\* W=w, and W=!NULL is written only for a link constructed without a word.
C10_WordKept ==
    pc = "slf_done" =>
        \A l \in 1..Len(links) :
            /\ word_args[l] # None =>
                 (links[l].word = word_args[l] /\ SlfWord(l) = Val(word_args[l]))
            /\ SlfWord(l) = "!NULL" => word_args[l] = None

\* ------------------------------------------------- properties: graph store
\* How often x occurs in the list s.
Count(s, x) == Cardinality({i \in 1..Len(s) : s[i] = x})

\* The list s is an initial part of the list t.
IsPrefix(s, t) == Len(s) <= Len(t) /\ SubSeq(t, 1, Len(s)) = s

\* The list s of link references is in the order in which the links were
\* added, that is in the order of links.
InAdditionOrder(s) == \A a, b \in 1..Len(s) : a < b => s[a] < s[b]

\* Every link is once in the out_links of its start node and in no other
\* out_links, once in the in_links of its end node and in no other in_links;
\* both lists are in the order of addition.
AdjacencyConsistent ==
    /\ \A l \in 1..Len(links) : \A i \in 1..Len(nodes) :
         /\ Count(nodes[i].out_links, l)
              = IF nodes[i].id = links[l].start_node THEN 1 ELSE 0
         /\ Count(nodes[i].in_links, l)
              = IF nodes[i].id = links[l].end_node THEN 1 ELSE 0
    /\ \A i \in 1..Len(nodes) :
         /\ InAdditionOrder(nodes[i].out_links)
         /\ InAdditionOrder(nodes[i].in_links)
         /\ \A k \in 1..Len(nodes[i].out_links) :
              nodes[i].out_links[k] \in 1..Len(links)
         /\ \A k \in 1..Len(nodes[i].in_links) :
              nodes[i].in_links[k] \in 1..Len(links)

\* An addition keeps every entry that links, out_links and in_links held.
EntriesKept ==
    /\ IsPrefix(links, links')
    /\ Len(nodes) <= Len(nodes')
    /\ \A i \in 1..Len(nodes) :
         /\ nodes'[i].id = nodes[i].id
         /\ IsPrefix(nodes[i].out_links, nodes'[i].out_links)
         /\ IsPrefix(nodes[i].in_links, nodes'[i].in_links)

\* C11: after any sequence of node additions and _add_link calls every link
\* is exactly once in the out_links of its start node and in no other node's
\* out_links, exactly once in the in_links of its end node and in no other
\* node's in_links; the lists are in the order of addition, and no addition
\* changes or removes an earlier entry of links, out_links or in_links.
C11_AdjacencyLists == []AdjacencyConsistent /\ [][EntriesKept]_vars

C11_Witness ==
    /\ Len(links) >= 3
    /\ \E i \in 1..Len(nodes) :
         /\ Len(nodes[i].out_links) >= 2
         /\ Len(nodes[i].in_links) >= 1
    /\ \E l \in 1..Len(links) : links[l].start_node = links[l].end_node
    /\ \E a, b \in 1..Len(links) :
         a < b /\ links[b].start_node < links[a].start_node

\* Two links with the same start node and the same end node.
ParallelLinks ==
    \E a, b \in 1..Len(links) :
        /\ a # b
        /\ links[a].start_node = links[b].start_node
        /\ links[a].end_node = links[b].end_node

\* C12: every call of sorted_nodes ends after finitely many dequeue steps, by
\* returning a list or by raising the cycle error, whatever cycles, self-loops
\* and parallel links the lattice holds.
C12_SortTerminates == (pc = "sorting") ~> (pc \in {"returned", "raised"})

C12_Witness ==
    /\ pc = "raised"
    /\ Len(result) >= 3
    /\ Len(nodes) = 2

\* The position of the last occurrence of x in the list s (0 when x is not
\* in s).
RECURSIVE LastIndex(_, _)
LastIndex(s, x) ==
    IF s = << >> THEN 0
    ELSE IF s[Len(s)] = x THEN Len(s)
    ELSE LastIndex(SubSeq(s, 1, Len(s) - 1), x)

\* C13: of two nodes that are in the ready set together and have equal times
\* (or both no time), the one that entered the ready set earlier is dequeued
\* first: a dequeued node entered before every other node of the ready set
\* that has the same time.
C13_TiesInEntryOrder ==
    dequeued # None =>
        LET d == Val(dequeued)
        IN \A i \in 1..Len(d.ready) :
             (d.ready[i] # d.node
              /\ NodeOf(d.ready[i]).time = NodeOf(d.node).time)
                 => LastIndex(d.entered, d.node)
                      < LastIndex(d.entered, d.ready[i])

\* C14: a list that sorted_nodes returns holds no node twice and is not longer
\* than nodes, on every lattice, and the assertion of line 204 never fails.
C14_NoDuplicateNodes ==
    /\ pc # "assertion_failed"
    /\ pc = "returned" =>
         /\ NoDuplicates(Val(returned))
         /\ Len(Val(returned)) <= Len(nodes)

C14_Witness ==
    /\ pc = "returned"
    /\ ~warned
    /\ Len(Val(returned)) >= 3
    /\ ParallelLinks

====
